---- MODULE Spec2Model ----
(***************************************************************************)
(* ddlm: the framebuffer greeter.  The model covers the key decoder of     *)
(* src/input.rs (InputStream::next) and the interactive loop of            *)
(* src/main.rs (LoginManager::greeter_loop) together with the part of      *)
(* main() that surrounds it.                                               *)
(*                                                                         *)
(* The two Strings are modelled as their UTF-8 byte sequences, so that     *)
(* String::len, String::insert, String::remove and the char-boundary       *)
(* rules are those of the byte representation.                             *)
(***************************************************************************)
EXTENDS Integers, Sequences, FiniteSets, TLC

\* Bound on the bytes held by the two fields together (the Strings grow
\* without limit in the program).
MaxBytes == 3
\* Bound on the number of session targets found at startup.
MaxTargets == 2

VARIABLES
    pc,                 \* position of the process
    kd_mode,            \* console mode: "Graphics" or "Text"
    ntargets,           \* self.targets.len()
    mode,               \* self.mode
    username,           \* bytes of the local String username
    password,           \* bytes of the local String password
    target_index,       \* self.target_index
    cursor_pos,         \* self.cursor_pos
    should_refresh,     \* self.should_refresh
    last_username_len,
    last_password_len,
    last_cursor_pos,
    last_target_index,
    last_mode,
    had_failure,
    key,                \* the Key input.next() returned in this iteration
    calls,              \* AuthClient calls made while handling that key
    scn,                \* how much of Scenario the input so far has matched
    trail,              \* the mode keys handled so far, while no other key came
    drew,               \* the redraw pass of the running iteration drew something
    shown,              \* what the renderer was last told to draw in each region
    stream,             \* bytes the byte source still holds (decoder runs)
    decoded             \* what the last InputStream::next consumed and returned

snapshot == <<last_username_len, last_password_len, last_cursor_pos,
              last_target_index, last_mode>>
env == <<kd_mode, ntargets>>
obs == <<scn, trail>>
dec == <<stream, decoded>>
vars == <<pc, kd_mode, ntargets, mode, username, password, target_index,
          cursor_pos, should_refresh, last_username_len, last_password_len,
          last_cursor_pos, last_target_index, last_mode, had_failure, key,
          calls, scn, trail, drew, shown, stream, decoded>>

Modes == {"SelectingSession", "EditingUsername", "EditingPassword"}

(***************************************************************************)
(* input.rs: the decoder                                                   *)
(***************************************************************************)
K(kind, b) == [kind |-> kind, byte |-> b]
NoKey == K("None", 0)

\* the third byte of an escape sequence 1B 5B c, with Up and Down exchanged
Csi_UpDownSwapped(c) ==
    CASE c = 65 -> K("Down", 0)
      [] c = 66 -> K("Up", 0)
      [] c = 67 -> K("Right", 0)
      [] c = 68 -> K("Left", 0)
      [] OTHER  -> K("OtherCsi", c)

\* the match on the third byte of an escape sequence 1B 5B c
Csi(c) ==
    CASE c = 65 -> K("Up", 0)
      [] c = 66 -> K("Down", 0)
      [] c = 67 -> K("Right", 0)
      [] c = 68 -> K("Left", 0)
      [] OTHER  -> K("OtherCsi", c)

\* InputStream::next on the bytes bs still to come: the Key and the number
\* of bytes consumed.  "Eof" when next_byte finds the source exhausted.
Decode(bs) ==
    IF Len(bs) = 0 THEN [key |-> K("Eof", 0), consumed |-> 0]
    ELSE LET b == bs[1] IN
      CASE b = 3   -> [key |-> K("CtrlC", 0), consumed |-> 1]
        [] b = 4   -> [key |-> K("CtrlD", 0), consumed |-> 1]
        [] b = 11  -> [key |-> K("CtrlK", 0), consumed |-> 1]
        [] b = 21  -> [key |-> K("CtrlU", 0), consumed |-> 1]
        [] b = 127 -> [key |-> K("Backspace", 0), consumed |-> 1]
        [] b = 9   -> [key |-> K("Tab", 0), consumed |-> 1]
        [] b = 13  -> [key |-> K("Return", 0), consumed |-> 1]
        [] b = 27  ->
             IF Len(bs) = 1 THEN [key |-> K("Eof", 0), consumed |-> 1]
             ELSE IF bs[2] = 91 THEN
                    IF Len(bs) = 2 THEN [key |-> K("Eof", 0), consumed |-> 2]
                    ELSE [key |-> Csi(bs[3]), consumed |-> 3]
                  ELSE [key |-> K("OtherEsc", bs[2]), consumed |-> 2]
        [] OTHER   -> [key |-> K("Other", b), consumed |-> 1]

\* The bytes the terminal delivers in the runs explored: the control bytes,
\* three ASCII letters and one byte >= 0x80, and the escape sequences.
CharBytes == {97, 98, 99, 233}
ControlBytes == {3, 4, 11, 21, 127, 9, 13}
InputSeqs ==
    {<<b>> : b \in ControlBytes \cup CharBytes}
    \cup {<<27, 113>>}
    \cup {<<27, 91, c>> : c \in {65, 66, 67, 68, 90}}

\* The key events the decoder can hand to the loop.
Keys == {Decode(bs).key : bs \in InputSeqs}

(***************************************************************************)
(* String and char, on UTF-8 bytes                                         *)
(***************************************************************************)
\* `k as char` followed by the UTF-8 encoding String::insert stores.
EncodeUtf8(k) ==
    IF k < 128 THEN <<k>> ELSE <<192 + (k \div 64), 128 + (k % 64)>>

\* char::len_utf8 of `k as char`.
len_utf8(k) == IF k < 128 THEN 1 ELSE 2

IsContinuation(b) == b >= 128 /\ b < 192

\* str::is_char_boundary
is_char_boundary(s, i) ==
    \/ i = 0
    \/ i = Len(s)
    \/ i > 0 /\ i < Len(s) /\ ~IsContinuation(s[i + 1])

\* width of the scalar whose leading byte is b
LeadWidth(b) ==
    IF b < 128 THEN 1 ELSE IF b < 224 THEN 2 ELSE IF b < 240 THEN 3 ELSE 4

\* start of the scalar that ends at byte offset i > 0 (chars().last())
PrevStart(s, i) ==
    CHOOSE j \in 0..(i - 1) :
        /\ ~IsContinuation(s[j + 1])
        /\ \A m \in (j + 1)..(i - 1) : IsContinuation(s[m + 1])

\* mutant: the character goes to the front of the field
StringInsert_Prepend(s, idx, k) ==
    EncodeUtf8(k) \o s

\* String::insert(idx, ch)
StringInsert(s, idx, k) ==
    SubSeq(s, 1, idx) \o EncodeUtf8(k) \o SubSeq(s, idx + 1, Len(s))

\* String::remove(idx), idx < len on a char boundary
StringRemove(s, idx) ==
    SubSeq(s, 1, idx) \o SubSeq(s, idx + 1 + LeadWidth(s[idx + 1]), Len(s))

\* mutant: the cursor steps back one byte, not one scalar
retreat_cursor_ByteWise(field, cur) ==
    IF cur = 0 THEN cur ELSE cur - 1

\* LoginManager::retreat_cursor: the new cursor_pos
retreat_cursor(field, cur) ==
    IF cur = 0 THEN cur ELSE PrevStart(field, cur)

\* mutant: the cursor steps right even at the end of the field
advance_cursor_PastEnd(field, cur) == cur + 1

\* LoginManager::advance_cursor: the new cursor_pos
advance_cursor(field, cur) ==
    IF cur >= Len(field) THEN cur ELSE cur + LeadWidth(field[cur + 1])

\* slicing field[..cur] / field[cur..], insert and remove panic off a boundary
SlicePanics(field, cur) == cur > Len(field) \/ ~is_char_boundary(field, cur)

(***************************************************************************)
(* main.rs: modes                                                          *)
(***************************************************************************)
\* mutant: the session picker is left out of the forward cycle
goto_next_mode_Skip(m) ==
    CASE m = "SelectingSession" -> "EditingUsername"
      [] m = "EditingUsername"  -> "EditingPassword"
      [] m = "EditingPassword"  -> "EditingUsername"

goto_next_mode(m) ==
    CASE m = "SelectingSession" -> "EditingUsername"
      [] m = "EditingUsername"  -> "EditingPassword"
      [] m = "EditingPassword"  -> "SelectingSession"

goto_prev_mode(m) ==
    CASE m = "SelectingSession" -> "EditingPassword"
      [] m = "EditingUsername"  -> "SelectingSession"
      [] m = "EditingPassword"  -> "EditingUsername"

ActiveField == IF mode = "EditingUsername" THEN username ELSE password
Editing == mode \in {"EditingUsername", "EditingPassword"}

\* the field of the current mode takes the value f, the other one stays
SetActiveField(f) ==
    IF mode = "EditingUsername"
    THEN username' = f /\ UNCHANGED password
    ELSE password' = f /\ UNCHANGED username

(***************************************************************************)
(* AuthClient calls                                                        *)
(***************************************************************************)
LoginCall(u, p, e) == [op |-> "login", username |-> u, password |-> p, exec |-> e]
CancelCall == [op |-> "cancel", username |-> <<>>, password |-> <<>>, exec |-> -1]

\* mutant: the Strings are kept after login
AfterLogin_Kept(field) == field

\* username = String::with_capacity(..), password = String::with_capacity(..):
\* what a field holds once login has returned
AfterLogin(field) == <<>>

\* targets[i].exec: the targets are told apart by their place in the list
Exec(i) == i

(***************************************************************************)
(* The input a scenario feeds: 'a', 'b', 'c', Return                       *)
(***************************************************************************)
Scenario == <<K("Other", 97), K("Other", 98), K("Other", 99), K("Return", 0)>>

ScnNext(k) ==
    IF scn >= 0 /\ scn < Len(Scenario) /\ k = Scenario[scn + 1]
    THEN scn + 1 ELSE -1

\* Observer of mode walks: while every key handled since the loop began is
\* Up, Down or Tab (at most MaxTrail of them), the keys and the mode each
\* one was handled in.
MaxTrail == 5

ModeKeys == {"Up", "Down", "Tab"}

TrailNext(k) ==
    IF trail.on /\ k.kind \in ModeKeys /\ Len(trail.steps) < MaxTrail
    THEN [on |-> TRUE, steps |-> Append(trail.steps, [kind |-> k.kind, from |-> mode])]
    ELSE [on |-> FALSE, steps |-> <<>>]

(***************************************************************************)
(* The renderer, remembering the last values drawn                         *)
(***************************************************************************)
\* cursor argument of auto_draw_text: None is -1
NoCursor == -1

NothingShown ==
    [username |-> <<>>, ucursor |-> NoCursor, plen |-> 0, pcursor |-> NoCursor,
     target |-> -1]

\* LoginManager::draw_target: the name of targets[target_index]
draw_target(sh) == [sh EXCEPT !.target = target_index]

\* LoginManager::draw_username(&username), with the cursor cur
draw_username(sh, cur) ==
    [sh EXCEPT !.username = username,
               !.ucursor = IF mode = "EditingUsername" THEN cur ELSE NoCursor]

\* LoginManager::draw_password(&password): one star per byte
draw_password(sh, cur) ==
    [sh EXCEPT !.plen = Len(password),
               !.pcursor = IF mode = "EditingPassword" THEN cur ELSE NoCursor]

\* no key decoded yet
NoDecoded == [key |-> K("None", 0), bytes |-> <<>>]

(***************************************************************************)
(* Initial state: main() after LoginManager::new                           *)
(***************************************************************************)
Init ==
    /\ pc = "main"
    /\ kd_mode = "Graphics"
    /\ ntargets \in 0..MaxTargets
    /\ mode = "EditingUsername"
    /\ target_index = 1
    /\ cursor_pos = 0
    /\ should_refresh = FALSE
    /\ username = <<>>
    /\ password = <<>>
    /\ last_username_len = 0
    /\ last_password_len = 0
    /\ last_cursor_pos = 1
    /\ last_target_index = 1
    /\ last_mode = "EditingUsername"
    /\ had_failure = FALSE
    /\ key = NoKey
    /\ calls = <<>>
    /\ scn = 0
    /\ trail = [on |-> TRUE, steps |-> <<>>]
    /\ drew = FALSE
    /\ shown = NothingShown
    /\ stream = <<>>
    /\ decoded = NoDecoded

\* LoginManager::refresh, called with should_refresh = sr, at the end of an
\* iteration: the flip may fail, and then expect() panics.
refresh(sr) ==
    \/ /\ should_refresh' = FALSE
       /\ pc' = "top"
    \/ /\ sr
       /\ should_refresh' = FALSE
       /\ pc' = "panic"

\* main(): lm.clear(); lm.draw_bg(GRAY).expect(..); lm.refresh()
MainSetup ==
    /\ pc = "main"
    /\ \/ /\ should_refresh' = FALSE
          /\ pc' = "loop_enter"
       \/ /\ should_refresh' \in BOOLEAN    \* draw_bg or the flip failed
          /\ pc' = "panic"
    /\ UNCHANGED <<env, mode, username, password, target_index, cursor_pos,
                   snapshot, had_failure, key, calls, obs, drew, shown, dec>>

\* greeter_loop up to the loop: the locals and the first draw_target
LoopEnter ==
    /\ pc = "loop_enter"
    /\ username' = <<>>
    /\ password' = <<>>
    /\ last_username_len' = 0
    /\ last_password_len' = 0
    /\ last_cursor_pos' = 1
    /\ last_target_index' = target_index
    /\ last_mode' = mode
    /\ had_failure' = FALSE
    /\ IF target_index >= ntargets
       THEN pc' = "panic" /\ UNCHANGED <<should_refresh, shown>>
       ELSE \/ /\ pc' = "top"
               /\ should_refresh' = TRUE
               /\ shown' = draw_target(shown)
            \/ pc' = "panic" /\ UNCHANGED <<should_refresh, shown>>
    /\ UNCHANGED <<env, mode, target_index, cursor_pos, key, calls, obs, drew, dec>>

\* One pass of the loop from its top to the blocking read: the cursor clamp,
\* the conditional draws and the snapshot.
max_cursor_pos ==
    CASE mode = "SelectingSession" -> 0
      [] mode = "EditingUsername"  -> Len(username)
      [] mode = "EditingPassword"  -> Len(password)

Min(a, b) == IF a < b THEN a ELSE b

mode_changed == last_mode # mode

\* mutant: the cursor is not clamped to the active field
PassCursor_NoClamp == IF mode_changed THEN max_cursor_pos ELSE cursor_pos

PassCursor == IF mode_changed THEN max_cursor_pos ELSE Min(cursor_pos, max_cursor_pos)

cursor_moved == last_cursor_pos # PassCursor

\* mutant: a moved cursor alone does not redraw the fields
PassDraws_NoCursorTracking ==
    (IF mode_changed THEN {"bg"} ELSE {})
    \cup (IF Len(username) # last_username_len \/ mode_changed
          THEN {"username"} ELSE {})
    \cup (IF Len(password) # last_password_len \/ mode_changed
          THEN {"password"} ELSE {})
    \cup (IF last_target_index # target_index THEN {"target"} ELSE {})
    \cup (IF had_failure THEN {"bg"} ELSE {})

PassDraws ==
    (IF mode_changed THEN {"bg"} ELSE {})
    \cup (IF Len(username) # last_username_len \/ mode_changed \/ cursor_moved
          THEN {"username"} ELSE {})
    \cup (IF Len(password) # last_password_len \/ mode_changed \/ cursor_moved
          THEN {"password"} ELSE {})
    \cup (IF last_target_index # target_index THEN {"target"} ELSE {})
    \cup (IF had_failure THEN {"bg"} ELSE {})

\* what the renderer holds after the draws of the pass
PassShown ==
    LET s1 == IF "username" \in PassDraws THEN draw_username(shown, PassCursor)
              ELSE shown
        s2 == IF "password" \in PassDraws THEN draw_password(s1, PassCursor) ELSE s1
    IN  IF "target" \in PassDraws THEN draw_target(s2) ELSE s2

\* mutant: the pass leaves the failure flag set
RedrawPass_KeepsFailure ==
    /\ pc = "top"
    /\ cursor_pos' = PassCursor
    /\ \/ /\ pc' = "read"
          /\ should_refresh' = (should_refresh \/ PassDraws # {})
          /\ last_username_len' = Len(username)
          /\ last_password_len' = Len(password)
          /\ last_mode' = mode
          /\ last_target_index' = target_index
          /\ last_cursor_pos' = PassCursor
          /\ had_failure' = had_failure
          /\ shown' = PassShown
       \/ /\ PassDraws # {}            \* a draw failed: expect() panics
          /\ pc' = "panic"
          /\ UNCHANGED <<should_refresh, snapshot, had_failure, shown>>
    /\ key' = NoKey
    /\ calls' = <<>>
    /\ drew' = (PassDraws # {})
    /\ UNCHANGED <<env, mode, username, password, target_index, obs, dec>>

RedrawPass ==
    /\ pc = "top"
    /\ cursor_pos' = PassCursor
    /\ \/ /\ pc' = "read"
          /\ should_refresh' = (should_refresh \/ PassDraws # {})
          /\ last_username_len' = Len(username)
          /\ last_password_len' = Len(password)
          /\ last_mode' = mode
          /\ last_target_index' = target_index
          /\ last_cursor_pos' = PassCursor
          /\ had_failure' = FALSE
          /\ shown' = PassShown
       \/ /\ PassDraws # {}            \* a draw failed: expect() panics
          /\ pc' = "panic"
          /\ UNCHANGED <<should_refresh, snapshot, had_failure, shown>>
    /\ key' = NoKey
    /\ calls' = <<>>
    /\ drew' = (PassDraws # {})
    /\ UNCHANGED <<env, mode, username, password, target_index, obs, dec>>

\* input.next() returns k
Read(k) ==
    /\ pc = "read"
    /\ k \in Keys
    /\ key' = k
    /\ scn' = ScnNext(k)
    /\ trail' = TrailNext(k)
    /\ UNCHANGED <<env, snapshot, shown, dec>>

\* InputStream::next_byte finds the source exhausted or failing
InputExhausted ==
    /\ pc = "read"
    /\ key' = K("Eof", 0)
    /\ \/ kd_mode' = "Text" /\ pc' = "exit1"
       \/ kd_mode' = kd_mode /\ pc' = "panic"
    /\ UNCHANGED <<ntargets, mode, username, password, target_index, cursor_pos,
                   should_refresh, snapshot, had_failure, calls, obs, drew, shown,
                   dec>>

\* Key::CtrlK | Key::CtrlU
HandleClear ==
    /\ \E k \in Keys : k.kind \in {"CtrlK", "CtrlU"} /\ Read(k)
    /\ CASE mode = "SelectingSession" -> UNCHANGED <<username, password>>
         [] mode = "EditingUsername"  -> username' = <<>> /\ UNCHANGED password
         [] mode = "EditingPassword"  -> password' = <<>> /\ UNCHANGED username
    /\ calls' = <<>>
    /\ refresh(should_refresh)
    /\ drew' = FALSE
    /\ UNCHANGED <<mode, target_index, cursor_pos, had_failure>>

\* mutant: the password is not cleared
HandleInterrupt_KeepsPassword ==
    /\ \E k \in Keys : k.kind \in {"CtrlC", "CtrlD"} /\ Read(k)
    /\ username' = <<>>
    /\ calls' = <<CancelCall>>
    /\ pc' = "returned"
    /\ drew' = FALSE
    /\ UNCHANGED <<mode, password, target_index, cursor_pos, should_refresh, had_failure>>

\* Key::CtrlC | Key::CtrlD
HandleInterrupt ==
    /\ \E k \in Keys : k.kind \in {"CtrlC", "CtrlD"} /\ Read(k)
    /\ username' = <<>>
    /\ password' = <<>>
    /\ calls' = <<CancelCall>>
    /\ pc' = "returned"
    /\ drew' = FALSE
    /\ UNCHANGED <<mode, target_index, cursor_pos, should_refresh, had_failure>>

\* mutant: Backspace does not move the cursor first
BackspaceCursor_NoRetreat(k) == cursor_pos

\* Key::Backspace | Key::Delete
BackspaceCursor(k) ==
    IF k.kind = "Backspace" THEN retreat_cursor(ActiveField, cursor_pos)
    ELSE cursor_pos

HandleBackspaceDelete ==
    /\ \E k \in Keys :
        /\ k.kind \in {"Backspace", "Delete"}
        /\ Read(k)
        /\ calls' = <<>>
        /\ drew' = FALSE
        /\ UNCHANGED <<mode, target_index, had_failure>>
        /\ IF mode = "SelectingSession" \/ (k.kind = "Backspace" /\ cursor_pos = 0)
           THEN \* continue
                /\ pc' = "top"
                /\ UNCHANGED <<username, password, cursor_pos, should_refresh>>
           ELSE IF SlicePanics(ActiveField, cursor_pos)
           THEN /\ pc' = "panic"
                /\ UNCHANGED <<username, password, cursor_pos, should_refresh>>
           ELSE LET c == BackspaceCursor(k) IN
                /\ cursor_pos' = c
                /\ IF c < Len(ActiveField)
                   THEN SetActiveField(StringRemove(ActiveField, c))
                   ELSE UNCHANGED <<username, password>>
                /\ refresh(should_refresh)

\* Key::Return, one definition per arm
ReturnSelectingSession ==
    /\ mode = "SelectingSession"
    /\ mode' = "EditingUsername"
    /\ calls' = <<>>
    /\ refresh(should_refresh)
    /\ drew' = FALSE
    /\ UNCHANGED <<username, password, had_failure>>

\* mutant: the password field is entered with an empty username too
ReturnEditingUsername_Always ==
    /\ mode = "EditingUsername"
    /\ mode' = "EditingPassword"
    /\ calls' = <<>>
    /\ refresh(should_refresh)
    /\ drew' = FALSE
    /\ UNCHANGED <<username, password, had_failure>>

ReturnEditingUsername ==
    /\ mode = "EditingUsername"
    /\ mode' = (IF username # <<>> THEN "EditingPassword" ELSE mode)
    /\ calls' = <<>>
    /\ refresh(should_refresh)
    /\ drew' = FALSE
    /\ UNCHANGED <<username, password, had_failure>>

\* mutant: the username survives the empty submission
ReturnEmptyPassword_KeepsUsername ==
    /\ mode = "EditingPassword"
    /\ password = <<>>
    /\ mode' = "EditingUsername"
    /\ calls' = <<>>
    /\ refresh(should_refresh)
    /\ drew' = FALSE
    /\ UNCHANGED <<username, password, had_failure>>

\* mutant: the empty submission leaves the loop
ReturnEmptyPassword_Exits ==
    /\ mode = "EditingPassword"
    /\ password = <<>>
    /\ username' = <<>>
    /\ mode' = "EditingUsername"
    /\ calls' = <<>>
    /\ pc' = "returned"
    /\ drew' = FALSE
    /\ UNCHANGED <<password, should_refresh, had_failure>>

ReturnEmptyPassword ==
    /\ mode = "EditingPassword"
    /\ password = <<>>
    /\ username' = <<>>
    /\ mode' = "EditingUsername"
    /\ calls' = <<>>
    /\ refresh(should_refresh)
    /\ drew' = FALSE
    /\ UNCHANGED <<password, had_failure>>

\* the submission: draw_bg(YELLOW), login, fresh Strings, and on Err
\* draw_bg(RED), the mode reset, cancel and had_failure
ReturnSubmit ==
    /\ mode = "EditingPassword"
    /\ password # <<>>
    /\ \/ \* draw_bg(YELLOW) fails, or targets[target_index] is out of range
          /\ pc' = "panic"
          /\ calls' = <<>>
          /\ drew' = FALSE
          /\ UNCHANGED <<mode, username, password, should_refresh, had_failure>>
       \/ /\ target_index < ntargets
          /\ username' = AfterLogin(username)
          /\ password' = AfterLogin(password)
          /\ \/ \* Ok(_) => return
                /\ calls' = <<LoginCall(username, password, Exec(target_index))>>
                /\ pc' = "returned"
                /\ should_refresh' = TRUE
                /\ drew' = FALSE
                /\ UNCHANGED <<mode, had_failure>>
             \/ \* Err(_), and draw_bg(RED) fails
                /\ calls' = <<LoginCall(username, password, Exec(target_index))>>
                /\ pc' = "panic"
                /\ should_refresh' = TRUE
                /\ drew' = FALSE
                /\ UNCHANGED <<mode, had_failure>>
             \/ \* Err(_)
                /\ calls' = <<LoginCall(username, password, Exec(target_index)),
                              CancelCall>>
                /\ mode' = "EditingUsername"
                /\ had_failure' = TRUE
                /\ drew' = FALSE
                /\ refresh(TRUE)

HandleReturn ==
    /\ \E k \in Keys : k.kind = "Return" /\ Read(k)
    /\ \/ ReturnSelectingSession
       \/ ReturnEditingUsername
       \/ ReturnEmptyPassword
       \/ ReturnSubmit
    /\ UNCHANGED <<target_index, cursor_pos>>

\* Key::Up
HandleUp ==
    /\ \E k \in Keys : k.kind = "Up" /\ Read(k)
    /\ mode' = goto_prev_mode(mode)
    /\ calls' = <<>>
    /\ refresh(should_refresh)
    /\ drew' = FALSE
    /\ UNCHANGED <<username, password, target_index, cursor_pos, had_failure>>

\* Key::Down | Key::Tab
HandleDownTab ==
    /\ \E k \in Keys : k.kind \in {"Down", "Tab"} /\ Read(k)
    /\ mode' = goto_next_mode(mode)
    /\ calls' = <<>>
    /\ refresh(should_refresh)
    /\ drew' = FALSE
    /\ UNCHANGED <<username, password, target_index, cursor_pos, had_failure>>

\* Key::Right
NextTarget(i, n) == (i + 1) % n

HandleRight ==
    /\ \E k \in Keys : k.kind = "Right" /\ Read(k)
    /\ calls' = <<>>
    /\ drew' = FALSE
    /\ UNCHANGED <<mode, username, password, had_failure>>
    /\ IF mode = "SelectingSession"
       THEN /\ target_index' = NextTarget(target_index, ntargets)
            /\ UNCHANGED cursor_pos
            /\ refresh(should_refresh)
       ELSE IF SlicePanics(ActiveField, cursor_pos)
       THEN /\ pc' = "panic"
            /\ UNCHANGED <<target_index, cursor_pos, should_refresh>>
       ELSE /\ cursor_pos' = advance_cursor(ActiveField, cursor_pos)
            /\ UNCHANGED target_index
            /\ refresh(should_refresh)

\* Key::Left
PrevTarget(i, n) == (IF i = 0 THEN n ELSE i) - 1

HandleLeft ==
    /\ \E k \in Keys : k.kind = "Left" /\ Read(k)
    /\ calls' = <<>>
    /\ drew' = FALSE
    /\ UNCHANGED <<mode, username, password, had_failure>>
    /\ IF mode = "SelectingSession"
       THEN /\ target_index' = PrevTarget(target_index, ntargets)
            /\ UNCHANGED cursor_pos
            /\ refresh(should_refresh)
       ELSE IF SlicePanics(ActiveField, cursor_pos)
       THEN /\ pc' = "panic"
            /\ UNCHANGED <<target_index, cursor_pos, should_refresh>>
       ELSE /\ cursor_pos' = retreat_cursor(ActiveField, cursor_pos)
            /\ UNCHANGED target_index
            /\ refresh(should_refresh)

\* Key::Other(k)
HandleOther ==
    /\ \E k \in Keys :
        /\ k.kind = "Other"
        /\ Len(username) + Len(password) + len_utf8(k.byte) <= MaxBytes
        /\ Read(k)
        /\ calls' = <<>>
        /\ drew' = FALSE
        /\ UNCHANGED <<mode, target_index, had_failure>>
        /\ IF mode = "SelectingSession"
           THEN \* continue
                /\ pc' = "top"
                /\ UNCHANGED <<username, password, cursor_pos, should_refresh>>
           ELSE IF SlicePanics(ActiveField, cursor_pos)
           THEN /\ pc' = "panic"
                /\ UNCHANGED <<username, password, cursor_pos, should_refresh>>
           ELSE /\ SetActiveField(StringInsert(ActiveField, cursor_pos, k.byte))
                /\ cursor_pos' = cursor_pos + len_utf8(k.byte)
                /\ refresh(should_refresh)

\* Key::OtherEsc(_) | Key::OtherCsi(_)
HandleOtherEscCsi ==
    /\ \E k \in Keys : k.kind \in {"OtherEsc", "OtherCsi"} /\ Read(k)
    /\ calls' = <<>>
    /\ refresh(should_refresh)
    /\ drew' = FALSE
    /\ UNCHANGED <<mode, username, password, target_index, cursor_pos, had_failure>>

\* main() after greeter_loop returned: set_kd_mode(Text).expect(..)
MainFinish ==
    /\ pc = "returned"
    /\ \/ kd_mode' = "Text" /\ pc' = "exited"
       \/ kd_mode' = kd_mode /\ pc' = "panic"
    /\ UNCHANGED <<ntargets, mode, username, password, target_index, cursor_pos,
                   should_refresh, snapshot, had_failure, key, calls, obs, drew,
                   shown, dec>>

Next ==
    \/ MainSetup
    \/ LoopEnter
    \/ RedrawPass
    \/ InputExhausted
    \/ HandleClear
    \/ HandleInterrupt
    \/ HandleBackspaceDelete
    \/ HandleReturn
    \/ HandleUp
    \/ HandleDownTab
    \/ HandleRight
    \/ HandleLeft
    \/ HandleOther
    \/ HandleOtherEscCsi
    \/ MainFinish

Spec == Init /\ [][Next]_vars

TypeOK ==
    /\ pc \in {"main", "loop_enter", "top", "read", "returned", "exited",
               "exit1", "panic"}
    /\ kd_mode \in {"Graphics", "Text"}
    /\ mode \in Modes
    /\ cursor_pos \in Nat
    /\ target_index \in Nat
    /\ should_refresh \in BOOLEAN
    /\ had_failure \in BOOLEAN

(***************************************************************************)
(* The decoder on its own: InputStream::next over arbitrary byte streams   *)
(***************************************************************************)
MaxStream == 3

\* Bytes the source may deliver: every byte the decoder singles out, the
\* bytes of the escape sequences, and bytes it treats as characters.
DecodeBytes == {0, 3, 4, 9, 11, 13, 21, 27, 65, 66, 67, 68, 90, 91, 97, 113, 127, 233}

Streams == UNION {[1..n -> DecodeBytes] : n \in 0..MaxStream}

\* The greeter blocked in its first input.next(), two session targets
\* configured, and any stream of bytes still to come.
InitDecode ==
    /\ pc = "read"
    /\ kd_mode = "Graphics"
    /\ ntargets = 2
    /\ mode = "EditingUsername"
    /\ target_index = 1
    /\ cursor_pos = 0
    /\ should_refresh = TRUE
    /\ username = <<>>
    /\ password = <<>>
    /\ last_username_len = 0
    /\ last_password_len = 0
    /\ last_cursor_pos = 0
    /\ last_target_index = 1
    /\ last_mode = "EditingUsername"
    /\ had_failure = FALSE
    /\ key = NoKey
    /\ calls = <<>>
    /\ scn = 0
    /\ trail = [on |-> TRUE, steps |-> <<>>]
    /\ drew = TRUE
    /\ shown = [username |-> <<>>, ucursor |-> 0, plen |-> 0, pcursor |-> NoCursor,
                target |-> 1]
    /\ stream \in Streams
    /\ decoded = NoDecoded

\* InputStream::next returns a Key
DecodeKey ==
    /\ pc = "read"
    /\ Decode(stream).key.kind # "Eof"
    /\ decoded' = [key |-> Decode(stream).key,
                   bytes |-> SubSeq(stream, 1, Decode(stream).consumed)]
    /\ stream' = SubSeq(stream, Decode(stream).consumed + 1, Len(stream))
    /\ UNCHANGED <<pc, env, mode, username, password, target_index, cursor_pos,
                   should_refresh, snapshot, had_failure, key, calls, obs, drew,
                   shown>>

\* InputStream::next_byte runs out of bytes inside InputStream::next
DecodeEof ==
    /\ pc = "read"
    /\ Decode(stream).key.kind = "Eof"
    /\ decoded' = [key |-> Decode(stream).key, bytes |-> stream]
    /\ stream' = <<>>
    /\ kd_mode' = "Text"
    /\ pc' = "exit1"
    /\ UNCHANGED <<ntargets, mode, username, password, target_index, cursor_pos,
                   should_refresh, snapshot, had_failure, key, calls, obs, drew,
                   shown>>

NextDecode == DecodeKey \/ DecodeEof

SpecDecode == InitDecode /\ [][NextDecode]_vars

(***************************************************************************)
(* Properties                                                              *)
(***************************************************************************)
\* the scalar boundaries of a field, walking the scalars from offset i
RECURSIVE WalkFrom(_, _)
WalkFrom(s, i) ==
    IF i >= Len(s) THEN {i} ELSE {i} \cup WalkFrom(s, i + LeadWidth(s[i + 1]))

ScalarBoundaries(s) == {b \in WalkFrom(s, 0) : b <= Len(s)}

OtherField == IF mode = "EditingUsername" THEN password ELSE username

LoginCalls == {i \in DOMAIN calls : calls[i].op = "login"}
CancelCalls == {i \in DOMAIN calls : calls[i].op = "cancel"}

\* C1: Return in EditingPassword with an empty password makes no AuthClient
\* call and leaves mode EditingUsername with the username empty; login is
\* never called with an empty password.
C1_EmptyPasswordNeverSubmitted ==
    /\ [][(pc = "read" /\ mode = "EditingPassword" /\ password = <<>>
             /\ key'.kind = "Return")
          => (LoginCalls' = {} /\ mode' = "EditingUsername" /\ username' = <<>>)]_vars
    /\ [](\A i \in LoginCalls : calls[i].password # <<>>)

C1_Witness ==
    /\ pc = "top"
    /\ key.kind = "Return"
    /\ last_mode = "EditingPassword"
    /\ last_password_len = 0
    /\ last_username_len > 0
    /\ mode = "EditingUsername"
    /\ username = <<>>
    /\ calls = <<>>

\* C2 (as claimed): Return in EditingPassword with a non-empty password
\* calls login exactly once with the username, the password and the selected
\* target's arguments, empties both fields, and then either the loop ends
\* (success) or mode is EditingUsername, cancel was called once, the
\* failure flag is set and the loop goes on.
SubmitStep ==
    pc = "read" /\ mode = "EditingPassword" /\ password # <<>> /\ key'.kind = "Return"

LoginMade ==
    /\ Cardinality(LoginCalls') = 1
    /\ calls'[1] = [op |-> "login", username |-> username, password |-> password,
                    exec |-> target_index]
    /\ username' = <<>>
    /\ password' = <<>>

FailureHandled ==
    /\ Len(calls') = 2
    /\ Cardinality(CancelCalls') = 1
    /\ mode' = "EditingUsername"
    /\ had_failure'

C2_Original ==
    [][SubmitStep =>
        /\ LoginMade
        /\ \/ pc' = "returned" /\ Len(calls') = 1
           \/ pc' = "top" /\ FailureHandled]_vars

\* C2 (amended): the in-progress background is drawn first and a failing draw
\* panics before login; otherwise login is called exactly once with the
\* username, the password and the selected target's arguments and both fields
\* are then empty.  On success the loop ends.  On failure the failure
\* background is drawn, and a failing draw panics before cancel; otherwise
\* mode is EditingUsername, cancel was called once, the failure flag is set
\* and the loop goes on unless the closing flip fails.
C2_SubmitOutcomes ==
    [][SubmitStep =>
        \/ pc' = "panic" /\ calls' = <<>> /\ UNCHANGED <<username, password, mode>>
        \/ /\ LoginMade
           /\ \/ pc' = "returned" /\ Len(calls') = 1
              \/ pc' = "panic" /\ Len(calls') = 1 /\ ~had_failure'
              \/ pc' \in {"top", "panic"} /\ FailureHandled]_vars

C2_Witness ==
    /\ pc = "top"
    /\ key.kind = "Return"
    /\ Len(calls) = 2
    /\ calls[1] = [op |-> "login", username |-> <<195, 169>>, password |-> <<97>>,
                   exec |-> 0]
    /\ calls[2].op = "cancel"
    /\ had_failure
    /\ mode = "EditingUsername"
    /\ username = <<>>
    /\ password = <<>>

\* C3 (as claimed): the run is ended, by the loop returning or the process
\* exiting, only by an interrupt key (cancel, no login) or by a successful
\* submission; no other step ends it, an exhausted byte source included.
LoopRunning == pc \in {"top", "read"}

InterruptExit ==
    /\ pc = "read"
    /\ key'.kind \in {"CtrlC", "CtrlD"}
    /\ calls' = <<CancelCall>>
    /\ pc' = "returned"

SuccessExit ==
    /\ SubmitStep
    /\ Len(calls') = 1
    /\ calls'[1].op = "login"
    /\ pc' = "returned"

C3_Original ==
    [][(LoopRunning /\ pc' \in {"returned", "exit1"})
        => (InterruptExit \/ SuccessExit)]_vars

\* C3 (amended): the loop returns only by an interrupt key (cancel, no login)
\* or by a successful submission; the run otherwise ends only with the byte
\* source exhausted or failing (text mode restored, exit status 1) or with a
\* panic of a failing draw, flip or console-mode call.
FatalInput ==
    pc = "read" /\ key'.kind = "Eof" /\ pc' = "exit1" /\ kd_mode' = "Text"

FatalPanic ==
    /\ pc' = "panic"
    /\ \/ pc = "top" /\ PassDraws # {}
       \/ pc = "read" /\ key'.kind = "Eof"
       \/ pc = "read" /\ should_refresh
       \/ SubmitStep

C3_LoopEnds ==
    [][(LoopRunning /\ ~LoopRunning')
        => (InterruptExit \/ SuccessExit \/ FatalInput \/ FatalPanic)]_vars

C3_Witness ==
    /\ pc = "exit1"
    /\ key.kind = "Eof"
    /\ kd_mode = "Text"
    /\ username # <<>>

\* C4: byte 0x03 or 0x04, in any mode and with any field contents, ends the
\* loop with exactly one cancel, no login and both fields empty.
C4_InterruptCancels ==
    [][(pc = "read" /\ key' \in {Decode(<<3>>).key, Decode(<<4>>).key})
        => /\ pc' = "returned"
           /\ calls' = <<CancelCall>>
           /\ username' = <<>>
           /\ password' = <<>>]_vars

C4_Witness ==
    /\ pc = "returned"
    /\ key = Decode(<<3>>).key
    /\ mode = "EditingPassword"
    /\ last_username_len > 0
    /\ last_password_len > 0
    /\ username = <<>>
    /\ password = <<>>
    /\ calls = <<CancelCall>>

\* C5: while a key is awaited in an editing mode, and after Left, Right, a
\* character, Backspace or Delete has been handled there, the cursor is
\* within the active field and on a scalar boundary of it.
CursorOK ==
    /\ cursor_pos >= 0
    /\ cursor_pos <= Len(ActiveField)
    /\ cursor_pos \in ScalarBoundaries(ActiveField)

C5_CursorOnBoundary ==
    /\ []((pc = "read" /\ Editing) => CursorOK)
    /\ [][(pc = "read" /\ Editing
             /\ key'.kind \in {"Left", "Right", "Other", "Backspace", "Delete"})
          => CursorOK']_vars

C5_Witness ==
    /\ pc = "top"
    /\ key.kind = "Left"
    /\ mode = "EditingUsername"
    /\ username = <<97, 195, 169>>
    /\ last_cursor_pos = 3
    /\ cursor_pos = 1

\* C6: Up, Down, Tab and Return (outside EditingPassword) change the mode as
\* the transition table says and leave username, password and session index
\* alone.
UpTable ==
    ("SelectingSession" :> "EditingPassword")
    @@ ("EditingUsername" :> "SelectingSession")
    @@ ("EditingPassword" :> "EditingUsername")

DownTable ==
    ("SelectingSession" :> "EditingUsername")
    @@ ("EditingUsername" :> "EditingPassword")
    @@ ("EditingPassword" :> "SelectingSession")

C6_TransitionTable ==
    [][pc = "read" =>
        /\ key'.kind = "Up"
             => mode' = UpTable[mode] /\ UNCHANGED <<username, password, target_index>>
        /\ key'.kind \in {"Down", "Tab"}
             => mode' = DownTable[mode] /\ UNCHANGED <<username, password, target_index>>
        /\ (key'.kind = "Return" /\ mode = "SelectingSession")
             => mode' = "EditingUsername"
                /\ UNCHANGED <<username, password, target_index>>
        /\ (key'.kind = "Return" /\ mode = "EditingUsername")
             => mode' = (IF username # <<>> THEN "EditingPassword" ELSE "EditingUsername")
                /\ UNCHANGED <<username, password, target_index>>]_vars

C6_Witness ==
    /\ pc = "top"
    /\ key.kind = "Return"
    /\ last_mode = "EditingUsername"
    /\ mode = "EditingUsername"
    /\ username = <<>>
    /\ password # <<>>

\* the last n keys of the trail are all of the given kinds
Run(n, kinds) ==
    /\ trail.on
    /\ Len(trail.steps) >= n
    /\ \A j \in (Len(trail.steps) - n + 1)..Len(trail.steps) :
          trail.steps[j].kind \in kinds

\* the mode in which the n-th last key of the trail was handled
StartOf(n) == trail.steps[Len(trail.steps) - n + 1].from

\* C7 (as claimed): four consecutive Down/Tab keys, and four consecutive Up
\* keys, bring the mode back to where it started.
C7_Original ==
    /\ Run(4, {"Down", "Tab"}) => mode = StartOf(4)
    /\ Run(4, {"Up"}) => mode = StartOf(4)

\* C7 (amended): three consecutive Down/Tab keys, and three consecutive Up
\* keys, bring the mode back to where it started.
C7_ThreeStepsClose ==
    /\ Run(3, {"Down", "Tab"}) => mode = StartOf(3)
    /\ Run(3, {"Up"}) => mode = StartOf(3)

C7_Witness ==
    /\ Run(3, {"Down", "Tab"})
    /\ Len(trail.steps) = 4
    /\ trail.steps[1].kind = "Up"
    /\ StartOf(3) = "SelectingSession"
    /\ mode = "SelectingSession"

ScalarStartBefore(s, c) ==
    CHOOSE b \in ScalarBoundaries(s) :
        b < c /\ \A x \in ScalarBoundaries(s) : x < c => x <= b

C9_Backspace ==
    [][(pc = "read" /\ Editing /\ key'.kind = "Backspace") =>
        /\ mode' = mode
        /\ OtherField' = OtherField
        /\ IF cursor_pos > 0
           THEN LET st == ScalarStartBefore(ActiveField, cursor_pos) IN
                /\ ActiveField' = SubSeq(ActiveField, 1, st)
                                  \o SubSeq(ActiveField, cursor_pos + 1, Len(ActiveField))
                /\ cursor_pos' = st
           ELSE ActiveField' = ActiveField /\ cursor_pos' = cursor_pos
        /\ (ActiveField = <<97, 98, 99>> /\ cursor_pos = 3)
             => (ActiveField' = <<97, 98>> /\ cursor_pos' = 2)
        /\ (ActiveField = <<97, 98>> /\ cursor_pos = 2)
             => (ActiveField' = <<97>> /\ cursor_pos' = 1)
        /\ (ActiveField = <<97>> /\ cursor_pos = 1)
             => (ActiveField' = <<>> /\ cursor_pos' = 0)
        /\ (ActiveField = <<>> /\ cursor_pos = 0)
             => (ActiveField' = <<>> /\ cursor_pos' = 0)]_vars

C9_Witness ==
    /\ pc = "top"
    /\ key.kind = "Backspace"
    /\ mode = "EditingUsername"
    /\ last_username_len = 3
    /\ last_cursor_pos = 3
    /\ username = <<97, 98>>
    /\ cursor_pos = 2

\* C10 (as claimed): while a key is awaited in an editing mode with a scalar
\* at the cursor, a Delete key event can be handled, and it removes that
\* scalar and leaves the cursor and the rest of the field as they were.
C10_DeleteRemovesScalar ==
    (pc = "read" /\ Editing /\ cursor_pos < Len(ActiveField)) =>
        ENABLED (/\ HandleBackspaceDelete
                 /\ key'.kind = "Delete"
                 /\ cursor_pos' = cursor_pos
                 /\ ActiveField' = StringRemove(ActiveField, cursor_pos))

\* what the claimed table gives for the consumed bytes bs
TableKey(bs) ==
    CASE bs = <<3>>   -> K("CtrlC", 0)
      [] bs = <<4>>   -> K("CtrlD", 0)
      [] bs = <<11>>  -> K("CtrlK", 0)
      [] bs = <<21>>  -> K("CtrlU", 0)
      [] bs = <<127>> -> K("Backspace", 0)
      [] bs = <<9>>   -> K("Tab", 0)
      [] bs = <<13>>  -> K("Return", 0)
      [] bs = <<27, 91, 65>> -> K("Up", 0)
      [] bs = <<27, 91, 66>> -> K("Down", 0)
      [] bs = <<27, 91, 67>> -> K("Right", 0)
      [] bs = <<27, 91, 68>> -> K("Left", 0)
      [] Len(bs) = 3 /\ bs[3] \notin {65, 66, 67, 68} -> K("OtherCsi", bs[3])
      [] Len(bs) = 2 -> K("OtherEsc", bs[2])
      [] OTHER -> K("Other", bs[1])

\* how many bytes the claim says are consumed, from the bytes to come
TableConsumed(bs) ==
    IF bs[1] # 27 THEN 1 ELSE IF bs[2] # 91 THEN 2 ELSE 3

\* C11: every key the decoder returns is the one the table gives for the
\* bytes it consumed, and it consumed exactly the leading one, two or three
\* bytes of the stream that the first bytes call for: one byte unless the
\* first is 0x1B, two for 0x1B and a byte other than '[', three for 0x1B '['.
C11_DecoderTable ==
    [][(stream' # stream /\ decoded'.key.kind # "Eof")
         => /\ stream = decoded'.bytes \o stream'
            /\ Len(decoded'.bytes) = TableConsumed(stream)
            /\ decoded'.key = TableKey(decoded'.bytes)]_vars

C11_Witness ==
    /\ decoded = [key |-> K("OtherCsi", 90), bytes |-> <<27, 91, 90>>]
    /\ stream = <<>>

\* the process has stopped
Stopped == {"exited", "exit1", "panic"}

\* the call that switches the console back to text mode itself failed
RestoreFailed == (pc = "returned" \/ key'.kind = "Eof") /\ pc' = "panic"

\* C12: whenever the process stops, by whatever path, the console was
\* switched back to text mode first (a failing switch excepted).
C12_ConsoleRestored ==
    [][(pc \notin Stopped /\ pc' \in Stopped /\ ~RestoreFailed)
         => kd_mode' = "Text"]_vars

\* the key being read is one the claim lists as having no effect in the
\* state it is read in
IgnoredEvent ==
    /\ pc = "read"
    /\ \/ key'.kind \in {"OtherEsc", "OtherCsi"}
       \/ /\ mode = "SelectingSession"
          /\ key'.kind \in {"Other", "Backspace", "Delete", "CtrlK", "CtrlU"}
       \/ Editing /\ key'.kind = "Left" /\ cursor_pos = 0
       \/ Editing /\ key'.kind = "Right" /\ cursor_pos = Len(ActiveField)

\* C13: unrecognized escape and CSI keys in any mode, character, Backspace,
\* Delete and clear-field keys in SelectingSession, Left at offset 0 and
\* Right at the end of the active field leave mode, username, password,
\* session index, cursor and failure flag unchanged, and the redraw pass
\* that follows has nothing to draw.
C13_IgnoredEvents ==
    [][IgnoredEvent
         => /\ UNCHANGED <<mode, username, password, target_index, cursor_pos,
                           had_failure>>
            /\ pc' = "top" => PassDraws' = {}]_vars

\* Right was handled at the end of a non-empty field, without effect
C13_Witness ==
    /\ pc = "top"
    /\ key.kind = "Right"
    /\ mode = "EditingUsername"
    /\ username # <<>>
    /\ cursor_pos = Len(username)
    /\ PassDraws = {}

\* C14: when the loop blocks in the read that follows a handled key event,
\* no draw is left unflipped: the draws that event caused have been flipped.
C14_FlippedBeforeRead ==
    [][(pc = "top" /\ key # NoKey /\ pc' = "read") => ~should_refresh']_vars

\* C15: when a pass of the loop reaches the read of the next key, the cursor
\* lies in 0..length of the active field (0 in SelectingSession); if the mode
\* differs from the previous iteration's the cursor is at the end of the
\* newly active field; and if the event just handled was a clear-field key
\* in an editing mode, the active field is empty and the cursor is 0.
C15_CursorClamped ==
    [][(pc = "top" /\ pc' = "read")
         => /\ cursor_pos' \in 0..max_cursor_pos'
            /\ mode_changed => cursor_pos' = max_cursor_pos'
            /\ (key.kind \in {"CtrlK", "CtrlU"} /\ Editing)
                 => (ActiveField' = <<>> /\ cursor_pos' = 0)]_vars

\* a clear-field key was handled with the cursor inside the field: the field
\* is now empty and the cursor lies beyond it until the pass clamps it
C15_Witness ==
    /\ pc = "top"
    /\ key.kind \in {"CtrlK", "CtrlU"}
    /\ Editing
    /\ ActiveField = <<>>
    /\ cursor_pos > 0

\* the handler of the key being read ends in refresh() with a draw pending:
\* a flip is issued (once; it may fail)
FlipIssued == pc = "read" /\ ~should_refresh' /\ (should_refresh \/ SubmitStep)

\* C16: refresh() runs at most once per iteration and flips only when a draw
\* is pending, and an iteration that drew nothing, neither in its redraw pass
\* nor in its handler, issues no flip.
C16_FlipOnlyAfterDraw ==
    [][FlipIssued => (drew \/ SubmitStep)]_vars

\* C17: right after a redraw pass the redraw decision finds nothing to draw,
\* so a second pass with no state change in between issues no draw; a pass
\* that finds the failure flag set draws the background and clears the flag,
\* so the flag forces the background on that one pass only.
C17_RedrawIdempotent ==
    [][(pc = "top" /\ pc' = "read")
         => /\ PassDraws' = {}
            /\ had_failure => "bg" \in PassDraws
            /\ ~had_failure']_vars

\* a failed login was handled and the pass that follows is about to run
C17_Witness ==
    /\ pc = "top"
    /\ had_failure
    /\ key.kind = "Return"
    /\ "bg" \in PassDraws

\* C18: with a non-empty list of session targets, the selected index is
\* always that of an existing target, from the initial state on.
C18_IndexInRange ==
    ntargets >= 1 => target_index \in 0..(ntargets - 1)

\* C19: every login call carries a non-empty username.
C19_LoginHasUsername ==
    \A i \in LoginCalls : calls[i].username # <<>>

\* C20: whenever the loop blocks in the read of the next key, the username
\* last drawn is the current username, the password mask last drawn has one
\* star per byte of the current password, the session line last drawn is
\* that of the current session index, and the cursor was last drawn at the
\* current offset in the field of the current mode and in no other field
\* (in none in SelectingSession).
C20_DisplayConsistent ==
    pc = "read"
      => /\ shown.username = username
         /\ shown.plen = Len(password)
         /\ shown.target = target_index
         /\ shown.ucursor = IF mode = "EditingUsername" THEN cursor_pos ELSE NoCursor
         /\ shown.pcursor = IF mode = "EditingPassword" THEN cursor_pos ELSE NoCursor

\* blocked in the read with both fields typed, the cursor moved back inside
\* the password and another session selected than the initial one
C20_Witness ==
    /\ pc = "read"
    /\ username # <<>>
    /\ password # <<>>
    /\ mode = "EditingPassword"
    /\ cursor_pos < Len(password)
    /\ target_index = 0
    /\ shown.target = 0
    /\ shown.pcursor = cursor_pos

====
